---- MODULE Spec2Model ----
(***************************************************************************)
(* Model of Scripts/collectors/github-collector.py: the GitHubCollector    *)
(* object (metrics, raw_data), one collection run                          *)
(* (collect_organization_data: organization fetch, the loop over the       *)
(* repository listing with _process_repository, _calculate_metrics) and    *)
(* main (save_data, exit status).                                          *)
(*                                                                         *)
(* Spec is main: one collector, one run.  ReuseSpec is a caller that runs  *)
(* collect_organization_data again on the same collector.  SumSpec,        *)
(* ScoreSpec and PullSpec are single runs over repositories chosen to vary *)
(* the summed fields, the stars / commits / review times, and the          *)
(* pull-request list.                                                      *)
(*                                                                         *)
(* Numbers that Python computes with "/" are modelled as exact fractions   *)
(* [num, den]; floating-point rounding is not modelled.  Timestamps are    *)
(* minutes.  The fields name/url/created_at/updated_at of a repository     *)
(* record are never read again by the collector; of them only the name is  *)
(* kept, as the identity of the record.                                    *)
(***************************************************************************)
EXTENDS Integers, Sequences, FiniteSets, TLC

VARIABLES
    metrics,      \* self.metrics
    raw_data,     \* self.raw_data: has_organization (the key is present), repos
    pc,           \* position of the caller: idle, iterating, returned, raised, exited
    listing,      \* the repositories the paginated listing has yielded in this run
    days_back,    \* the days_back argument of the current run
    calls,        \* collect_organization_data calls made on this collector
    org_failed,   \* this run's organization / repository-list fetch raised
    save_failed,  \* save_data raised
    saved,        \* the document save_data wrote (empty sequence: none)
    exit_status   \* main's return value (empty sequence: still running)

vars == <<metrics, raw_data, pc, listing, days_back, calls, org_failed,
          save_failed, saved, exit_status>>

----------------------------------------------------------------------------
(* Bounds of the model *)

MaxRepos == 2       \* repositories listed in one run of main
MaxRecords == 3     \* repositories listed in one run of the aggregation studies
MaxCalls == 2       \* runs on one re-used collector
MaxPulls == 11      \* pull requests of one repository

(* Program constants *)

DaysPeriod == 90        \* days_period in _calculate_metrics
DefaultDays == 90       \* default of --days and of days_back
ReviewLimit == 10       \* recent_pulls[:10]
StarCap == 1000         \* min(1 + stars, 1000)
ScoreDivisor == 100     \* activity * star_factor / 100
SecondsPerHour == 3600  \* total_seconds() / 3600
SecondsPerMinute == 60
MinutesPerDay == 1440
Now == 200000           \* datetime.now(), in minutes; constant during a run

----------------------------------------------------------------------------
(* Exact fractions for Python's true division *)

Min(a, b) == IF a < b THEN a ELSE b

Abs(a) == IF a < 0 THEN -a ELSE a

RECURSIVE GCD(_, _)
GCD(a, b) == IF b = 0 THEN a ELSE GCD(b, a % b)

\* n / d for d > 0, in lowest terms
Frac(n, d) == LET g == GCD(Abs(n), d) IN [num |-> n \div g, den |-> d \div g]

Zero == [num |-> 0, den |-> 1]

\* Python's None, for avg_review_time_hours
None == [num |-> 0, den |-> 0]

FracAdd(a, b) == Frac(a.num * b.den + b.num * a.den, a.den * b.den)

FracMul(a, b) == Frac(a.num * b.num, a.den * b.den)

\* a / k for an integer k > 0
FracDiv(a, k) == Frac(a.num, a.den * k)

RECURSIVE SumInt(_)
\* sum(s) for a list of integers
SumInt(s) == IF Len(s) = 0 THEN 0 ELSE Head(s) + SumInt(Tail(s))

RECURSIVE SumFrac(_)
\* sum(s) for a list of fractions
SumFrac(s) == IF Len(s) = 0 THEN Zero ELSE FracAdd(Head(s), SumFrac(Tail(s)))

\* [r[key] for r in repos]
Field(repos, key) == [i \in DOMAIN repos |-> repos[i][key]]

----------------------------------------------------------------------------
(* GitHubCollector.__init__ *)

InitMetrics ==
    [repo_count |-> 0, total_stars |-> 0, total_forks |-> 0, total_issues |-> 0,
     total_prs |-> 0, contributor_count |-> 0, commit_frequency |-> Zero,
     response_time_avg |-> Zero, issue_close_rate |-> 0,
     recent_activity_score |-> Zero]

InitRawData == [has_organization |-> FALSE, repos |-> <<>>]

----------------------------------------------------------------------------
(* _process_repository *)

\* variant: the size test is missing
SkippedIgnoringSize(repo) == repo.fork \/ repo.archived

\* if repo.fork or repo.archived or repo.size == 0: return
Skipped(repo) == repo.fork \/ repo.archived \/ repo.size = 0

\* since_date = datetime.now() - timedelta(days=days_back)
SinceDate(days) == Now - days * MinutesPerDay

\* recent_pulls = [p for p in pulls if p.created_at > since_date]
RecentPulls(pulls, since) == SelectSeq(pulls, LAMBDA p : p.created_at > since)

\* recent_pulls[:10]
LatestPulls(recent) == SubSeq(recent, 1, Min(Len(recent), ReviewLimit))

\* (pr.updated_at - pr.created_at).total_seconds() / 3600
ReviewHours(pr) ==
    Frac((pr.updated_at - pr.created_at) * SecondsPerMinute, SecondsPerHour)

\* variant: every recent pull request is timed
ReviewTimesUncapped(recent) == [i \in DOMAIN recent |-> ReviewHours(recent[i])]

\* The review_times list.  The guard "if pr.created_at and pr.updated_at" is
\* true of every pull request the listing returns: both are datetime objects.
ReviewTimes(recent) ==
    [i \in DOMAIN LatestPulls(recent) |-> ReviewHours(LatestPulls(recent)[i])]

\* sum(review_times) / len(review_times) if review_times else None
AvgReviewTime(review_times) ==
    IF Len(review_times) = 0 THEN None
    ELSE FracDiv(SumFrac(review_times), Len(review_times))

\* repo.get_commits(since=since_date): the commits made after since
GetCommits(commits, since) == SelectSeq(commits, LAMBDA c : c > since)

\* variant: a failed commit fetch is counted like a successful one
RecentCommitCountDespiteFailure(repo, days) ==
    Len(GetCommits(repo.commits, SinceDate(days)))

\* try: commits = list(repo.get_commits(since=since_date)) ... except: 0
RecentCommitCount(repo, days) ==
    IF repo.commits_fail THEN 0
    ELSE Len(GetCommits(repo.commits, SinceDate(days)))

\* try: contributors = list(repo.get_contributors()) ... except: 0
ContributorCount(repo) == IF repo.contributors_fail THEN 0 ELSE repo.contributors

\* the pull-request try block: (recent_pr_count, avg_review_time_hours)
PullData(repo, days) ==
    IF repo.pulls_fail
    THEN [recent_pr_count |-> 0, avg_review_time_hours |-> None]
    ELSE LET recent == RecentPulls(repo.pulls, SinceDate(days))
         IN [recent_pr_count |-> Len(recent),
             avg_review_time_hours |-> AvgReviewTime(ReviewTimes(recent))]

\* repo_data as it is appended
RepoData(repo, days) ==
    LET pd == PullData(repo, days)
    IN [name |-> repo.name, stars |-> repo.stars, forks |-> repo.forks,
        open_issues |-> repo.open_issues,
        recent_commit_count |-> RecentCommitCount(repo, days),
        contributor_count |-> ContributorCount(repo),
        recent_pr_count |-> pd.recent_pr_count,
        avg_review_time_hours |-> pd.avg_review_time_hours]

\* variant: the commit fetch is outside its try block
ProcessRaisesOnCommitFailure(repo) == ~Skipped(repo) /\ repo.commits_fail

\* An exception leaving _process_repository: each of the three sub-fetches is
\* inside its own try / except Exception, so a failed sub-fetch never does.
ProcessRaises(repo) == FALSE

\* _process_repository(repo, days_back) on the record list repos
ProcessRepository(repos, repo, days) ==
    IF Skipped(repo) THEN repos ELSE Append(repos, RepoData(repo, days))

----------------------------------------------------------------------------
(* _calculate_metrics *)


\* variant: the star count is not smoothed by 1
CappedStarsUnsmoothed(r) == Min(r.stars, StarCap)

\* min(1 + r["stars"], 1000)
CappedStars(r) == Min(1 + r.stars, StarCap)

RECURSIVE ContributorsMerged(_)
\* variant: contributors are merged across repositories (the largest count)
ContributorsMerged(repos) ==
    IF repos = <<>> THEN 0
    ELSE LET rest == ContributorsMerged(Tail(repos))
         IN IF Head(repos).contributor_count > rest
            THEN Head(repos).contributor_count ELSE rest

\* contributors = sum(r.get("contributor_count", 0) for r in repos)
Contributors(repos) == SumInt(Field(repos, "contributor_count"))

\* commits / days_period if days_period > 0 else 0
CommitFrequency(commits) ==
    IF DaysPeriod > 0 THEN Frac(commits, DaysPeriod) ELSE Zero

\* variant: the filter tests truth, so 0.0 is dropped like None
ResponseTimesTruthy(repos) ==
    Field(SelectSeq(repos, LAMBDA r : r.avg_review_time_hours.num # 0),
          "avg_review_time_hours")

\* [r.get("avg_review_time_hours", 0) for r in repos if ... is not None]
ResponseTimes(repos) ==
    Field(SelectSeq(repos, LAMBDA r : r.avg_review_time_hours # None),
          "avg_review_time_hours")

\* sum(response_times) / len(response_times) if response_times else 0
ResponseTimeAvg(repos) ==
    LET response_times == ResponseTimes(repos)
    IN IF Len(response_times) = 0 THEN Zero
       ELSE FracDiv(SumFrac(response_times), Len(response_times))

\* sum(min(1 + r["stars"], 1000) for r in repos) / len(repos), for len > 0
StarFactor(repos) ==
    Frac(SumInt([i \in DOMAIN repos |-> CappedStars(repos[i])]), Len(repos))

\* activity * star_factor / 100, activity = (commits + total_prs) / days_period
ActivityScore(commits, total_prs, repos) ==
    FracDiv(FracMul(Frac(commits + total_prs, DaysPeriod), StarFactor(repos)),
            ScoreDivisor)

\* The assignments after the emptiness test.  A division by zero (days_period
\* or len(repos)) raises ZeroDivisionError after the fields before it are set.
Aggregate(m, repos) ==
    LET commits == SumInt(Field(repos, "recent_commit_count"))
        total_prs == SumInt(Field(repos, "recent_pr_count"))
        raises == DaysPeriod = 0 \/ Len(repos) = 0
        m1 == [m EXCEPT !.repo_count = Len(repos),
                        !.total_stars = SumInt(Field(repos, "stars")),
                        !.total_forks = SumInt(Field(repos, "forks")),
                        !.total_issues = SumInt(Field(repos, "open_issues")),
                        !.total_prs = total_prs,
                        !.contributor_count = Contributors(repos),
                        !.commit_frequency = CommitFrequency(commits),
                        !.response_time_avg = ResponseTimeAvg(repos)]
    IN IF raises THEN [metrics |-> m1, raised |-> TRUE]
       ELSE [metrics |-> [m1 EXCEPT !.recent_activity_score =
                                       ActivityScore(commits, total_prs, repos)],
             raised |-> FALSE]

\* variant: the test for an empty record list is missing
CalculateMetricsWithoutEmptyTest(m, repos) == Aggregate(m, repos)

\* _calculate_metrics on self.metrics = m and the record list (the method
\* does not receive the run's days_back)
CalculateMetrics(m, repos) ==
    IF repos = <<>> THEN [metrics |-> m, raised |-> FALSE]
    ELSE Aggregate(m, repos)

----------------------------------------------------------------------------
(* Inputs: what the GitHub API answers *)

\* the --days values studied
Days == {0, 30, DefaultDays}

\* a pull request created age minutes ago and last updated review minutes later
PullRequest(age, review) ==
    [created_at |-> Now - age, updated_at |-> Now - age + review]

\* n commits, one a day, the latest half a day ago
Commits(n) == [i \in 1..n |-> Now - i * MinutesPerDay + 720]

\* A repository as the listing yields it, with what its three sub-fetches
\* draw from: commits holds the times of its commits, pulls is the list
\* get_pulls(sort='created', direction='desc') returns.
BaseRepository ==
    [fork |-> FALSE, archived |-> FALSE, size |-> 120,
     stars |-> 10, forks |-> 1, open_issues |-> 2,
     commits |-> Commits(5), commits_fail |-> FALSE,
     contributors |-> 5, contributors_fail |-> FALSE,
     pulls |-> <<PullRequest(45 * MinutesPerDay, 90)>>, pulls_fail |-> FALSE]

\* the k-th repository of the listing
Named(r, k) == [name |-> k] @@ r

\* Repositories of the runs of main: every combination of the three skip
\* flags and, for a repository that is not skipped, of the three sub-fetch
\* failures (a skipped one is never fetched: all succeed or all fail).
Repositories ==
    { r \in { [BaseRepository EXCEPT !.fork = f, !.archived = a, !.size = s,
                  !.commits_fail = cf, !.contributors_fail = tf,
                  !.pulls_fail = pf] :
                 f \in BOOLEAN, a \in BOOLEAN, s \in {0, 120},
                 cf \in BOOLEAN, tf \in BOOLEAN, pf \in BOOLEAN } :
        (r.fork \/ r.archived \/ r.size = 0)
            => (r.commits_fail = r.contributors_fail
                /\ r.contributors_fail = r.pulls_fail) }

\* Repositories of the runs on a re-used collector
ReuseRepositories ==
    { BaseRepository,
      [BaseRepository EXCEPT !.stars = 3, !.commits = Commits(2), !.pulls_fail = TRUE],
      [BaseRepository EXCEPT !.archived = TRUE] }

\* Repositories of the study of the sums: none is skipped, no sub-fetch fails
SumRepositories ==
    { [BaseRepository EXCEPT !.stars = st, !.contributors = ct,
          !.forks = fip[1], !.open_issues = fip[2], !.pulls = fip[3]] :
        st \in {0, 10}, ct \in {0, 5},
        fip \in { <<1, 2, <<>> >>,
                  <<3, 4, <<PullRequest(10 * MinutesPerDay, 90)>> >> } }

\* Repositories of the study of the averages and of the activity score
ScoreRepositories ==
    { [BaseRepository EXCEPT !.stars = st, !.commits = Commits(cp[1]),
          !.pulls = cp[2]] :
        st \in {0, 10, 990, 1500},
        cp \in { <<0, <<>> >>,
                 <<5, <<PullRequest(10 * MinutesPerDay, 0)>> >>,
                 <<20, <<PullRequest(10 * MinutesPerDay, 90),
                         PullRequest(40 * MinutesPerDay, 180)>> >> } }

\* A pull-request list as get_pulls returns it, newest first: the i-th was
\* created i weeks ago and last updated review[i] minutes later.
PullList(review) ==
    [i \in DOMAIN review |-> PullRequest(i * 7 * MinutesPerDay, review[i])]

\* Repositories of the study of the pull requests: up to MaxPulls of them
PullRepositories ==
    { [BaseRepository EXCEPT !.pulls = PullList(review)] :
        review \in UNION { [1..n -> {0, 90}] : n \in 0..MaxPulls } }

----------------------------------------------------------------------------
(* State after construction: collector = GitHubCollector(token) *)

Init ==
    /\ metrics = InitMetrics
    /\ raw_data = InitRawData
    /\ pc = "idle"
    /\ listing = <<>>
    /\ days_back = DefaultDays
    /\ calls = 0
    /\ org_failed = FALSE
    /\ save_failed = FALSE
    /\ saved = <<>>
    /\ exit_status = <<>>

----------------------------------------------------------------------------
(* collect_organization_data *)

CanCall(max_calls) == pc \in {"idle", "returned", "raised"} /\ calls < max_calls

\* get_organization raises (rate limit, unknown organization, network): the
\* except clauses print and re-raise; raw_data keeps what it held.
CollectFail(days, max_calls) ==
    /\ CanCall(max_calls)
    /\ calls' = calls + 1
    /\ days_back' = days
    /\ listing' = <<>>
    /\ org_failed' = TRUE
    /\ pc' = "raised"
    /\ UNCHANGED <<metrics, raw_data, save_failed, saved, exit_status>>

\* get_organization and get_repos succeed: raw_data["organization"] is set
\* with an empty record list and the loop starts.
CollectStart(days, max_calls) ==
    /\ CanCall(max_calls)
    /\ calls' = calls + 1
    /\ days_back' = days
    /\ listing' = <<>>
    /\ org_failed' = FALSE
    /\ raw_data' = [has_organization |-> TRUE, repos |-> <<>>]
    /\ pc' = "iterating"
    /\ UNCHANGED <<metrics, save_failed, saved, exit_status>>

\* The paginated repository listing raises while the loop draws from it.
ListingFail ==
    /\ pc = "iterating"
    /\ org_failed' = TRUE
    /\ pc' = "raised"
    /\ UNCHANGED <<metrics, raw_data, listing, days_back, calls, save_failed,
                   saved, exit_status>>

\* One iteration of "for repo in repos": the listing yields r and
\* _process_repository(r, days_back) runs.
ProcessStep(r) ==
    /\ pc = "iterating"
    /\ LET repo == Named(r, Len(listing) + 1)
       IN /\ listing' = Append(listing, repo)
          /\ IF ProcessRaises(repo)
             THEN /\ pc' = "raised"
                  /\ UNCHANGED raw_data
             ELSE /\ pc' = "iterating"
                  /\ raw_data' = [raw_data EXCEPT !.repos =
                         ProcessRepository(raw_data.repos, repo, days_back)]
    /\ UNCHANGED <<metrics, days_back, calls, org_failed, save_failed, saved,
                   exit_status>>

\* The listing is exhausted: _calculate_metrics() and return self.metrics.
CalculateStep ==
    /\ pc = "iterating"
    /\ LET res == CalculateMetrics(metrics, raw_data.repos)
       IN /\ metrics' = res.metrics
          /\ pc' = IF res.raised THEN "raised" ELSE "returned"
    /\ UNCHANGED <<raw_data, listing, days_back, calls, org_failed, save_failed,
                   saved, exit_status>>

----------------------------------------------------------------------------
(* main *)

\* collector.save_data(args.output) writes raw_data and metrics; return 0
SaveAndExit ==
    /\ pc = "returned"
    /\ saved' = <<[raw_data |-> raw_data, metrics |-> metrics]>>
    /\ exit_status' = <<0>>
    /\ pc' = "exited"
    /\ UNCHANGED <<metrics, raw_data, listing, days_back, calls, org_failed,
                   save_failed>>

\* save_data raises (the output cannot be written): except Exception, return 1
SaveFail ==
    /\ pc = "returned"
    /\ save_failed' = TRUE
    /\ exit_status' = <<1>>
    /\ pc' = "exited"
    /\ UNCHANGED <<metrics, raw_data, listing, days_back, calls, org_failed,
                   saved>>

\* collect_organization_data raised: except Exception, return 1
ErrorExit ==
    /\ pc = "raised"
    /\ exit_status' = <<1>>
    /\ pc' = "exited"
    /\ UNCHANGED <<metrics, raw_data, listing, days_back, calls, org_failed,
                   save_failed, saved>>

\* The five steps of collect_organization_data on repositories drawn from
\* catalogue, at most limit of them per run and max_calls runs
Collection(catalogue, limit, max_calls) ==
    \/ \E d \in Days : CollectStart(d, max_calls)
    \/ \E d \in Days : CollectFail(d, max_calls)
    \/ ListingFail
    \/ /\ pc = "iterating"
       /\ Len(listing) < limit
       /\ \E r \in catalogue : ProcessStep(r)
    \/ CalculateStep

\* main: one collector, one run
Next ==
    \/ Collection(Repositories, MaxRepos, 1)
    \/ SaveAndExit
    \/ SaveFail
    \/ ErrorExit

Spec == Init /\ [][Next]_vars

\* A caller that runs collect_organization_data again on the same collector
ReuseNext == Collection(ReuseRepositories, MaxRepos, MaxCalls)

ReuseSpec == Init /\ [][ReuseNext]_vars

\* One run over repositories that differ in the summed fields
SumNext == Collection(SumRepositories, MaxRecords, 1)

SumSpec == Init /\ [][SumNext]_vars

\* One run over repositories that differ in stars, commits and review times
ScoreNext == Collection(ScoreRepositories, MaxRecords, 1)

ScoreSpec == Init /\ [][ScoreNext]_vars

\* One run over an organization of one repository with many pull requests
PullNext ==
    \/ \E d \in Days : CollectStart(d, 1)
    \/ \E d \in Days : CollectFail(d, 1)
    \/ ListingFail
    \/ /\ pc = "iterating"
       /\ listing = <<>>
       /\ \E r \in PullRepositories : ProcessStep(r)
    \/ CalculateStep

PullSpec == Init /\ [][PullNext]_vars

----------------------------------------------------------------------------
(* Properties *)

Records == raw_data.repos

Flagged(r) == r.fork = TRUE \/ r.archived = TRUE \/ r.size = 0

\* the record appended for the k-th repository of the listing, if any
RecordsOf(k) == { j \in DOMAIN Records : Records[j].name = k }

RECURSIVE SumOverSet(_, _)
\* the sum of f[k] over the k of S
SumOverSet(f, S) ==
    IF S = {} THEN 0
    ELSE LET k == CHOOSE x \in S : TRUE IN f[k] + SumOverSet(f, S \ {k})

\* the sum of a field over the records
Total(key) ==
    SumOverSet([j \in DOMAIN Records |-> Records[j][key]], DOMAIN Records)

\* the pull requests of a list created after the cutoff of the run
AfterCutoff(pulls) ==
    { k \in DOMAIN pulls : pulls[k].created_at > Now - days_back * 1440 }

\* C1: the record list holds no record of a repository with fork, archived or
\* size = 0, whatever its other fields, and exactly one record, in listing
\* order, of every other repository processed so far.
C1_SkippedNeverRecorded ==
    LET kept == SelectSeq(listing, LAMBDA r : ~Flagged(r))
    IN /\ Len(Records) = Len(kept)
       /\ \A j \in DOMAIN Records : Records[j].name = kept[j].name
       /\ \A k \in DOMAIN listing :
             Cardinality(RecordsOf(k)) = (IF Flagged(listing[k]) THEN 0 ELSE 1)

C1_Witness ==
    /\ pc = "returned"
    /\ Len(listing) = 2
    /\ listing[1].size = 0 /\ ~listing[1].fork /\ ~listing[1].archived
    /\ listing[1].stars = 10 /\ ~listing[1].commits_fail
    /\ ~Flagged(listing[2])
    /\ Len(Records) = 1
    /\ Records[1].name = 2

\* C2: whatever combination of the commit, contributor and pull-request
\* fetches fails for a repository that is not skipped, the run is not aborted
\* and its record is appended with 0 (and null) for the failed fetches and the
\* fetched values for the others.
C2_SubFetchFailuresDegrade ==
    /\ pc = "raised" => org_failed
    /\ \A k \in DOMAIN listing :
          ~Flagged(listing[k]) =>
             \E j \in DOMAIN Records :
                LET r == listing[k]
                    rec == Records[j]
                IN /\ rec.name = k
                   /\ rec.stars = r.stars /\ rec.forks = r.forks
                   /\ rec.open_issues = r.open_issues
                   /\ rec.recent_commit_count =
                         (IF r.commits_fail THEN 0
                          ELSE Cardinality({ c \in DOMAIN r.commits :
                                  r.commits[c] > Now - days_back * 1440 }))
                   /\ rec.contributor_count =
                         (IF r.contributors_fail THEN 0 ELSE r.contributors)
                   /\ r.pulls_fail =>
                         /\ rec.recent_pr_count = 0
                         /\ rec.avg_review_time_hours = None
                   /\ ~r.pulls_fail =>
                         /\ rec.recent_pr_count = Cardinality(AfterCutoff(r.pulls))
                         /\ (rec.avg_review_time_hours = None)
                               <=> (AfterCutoff(r.pulls) = {})

C2_Witness ==
    /\ pc = "returned"
    /\ Len(listing) = 2
    /\ Len(Records) = 2
    /\ listing[1].commits_fail /\ ~listing[1].contributors_fail
    /\ listing[1].pulls_fail
    /\ ~listing[2].commits_fail /\ listing[2].contributors_fail
    /\ ~listing[2].pulls_fail
    /\ Records[1].recent_commit_count = 0 /\ Records[1].contributor_count = 5
    /\ Records[2].recent_commit_count = 5 /\ Records[2].contributor_count = 0
    /\ Records[2].recent_pr_count = 1
    /\ Records[2].avg_review_time_hours = Frac(3, 2)

RecentCommitsTotal == Total("recent_commit_count")

\* C5: commit_frequency is the sum of recent_commit_count divided by the
\* lookback window given to the run, and 0 when that window is 0.
C5_CommitFrequencyUsesWindow ==
    pc = "returned" =>
       IF days_back = 0 THEN metrics.commit_frequency.num = 0
       ELSE metrics.commit_frequency.num * days_back
               = RecentCommitsTotal * metrics.commit_frequency.den

\* C6: on a fresh collector, a run that leaves the record list empty leaves
\* every metrics field at its default 0 and attempts no division by the list
\* length (nothing raises; main returns 0).
C6_EmptyRunKeepsDefaults ==
    (pc \in {"returned", "raised", "exited"} /\ ~org_failed /\ Records = <<>>) =>
       /\ pc # "raised"
       /\ (pc = "exited" /\ ~save_failed) => exit_status = <<0>>
       /\ metrics.repo_count = 0 /\ metrics.total_stars = 0
       /\ metrics.total_forks = 0 /\ metrics.total_issues = 0
       /\ metrics.total_prs = 0 /\ metrics.contributor_count = 0
       /\ metrics.commit_frequency = Zero
       /\ metrics.response_time_avg = Zero
       /\ metrics.recent_activity_score = Zero

C6_Witness ==
    /\ pc = "returned"
    /\ Len(listing) = 2
    /\ Records = <<>>
    /\ metrics = InitMetrics

\* the records a fresh collector builds from a listing
RECURSIVE FreshRecords(_, _)
FreshRecords(l, days) ==
    IF l = <<>> THEN <<>>
    ELSE ProcessRepository(FreshRecords(SubSeq(l, 1, Len(l) - 1), days),
                           l[Len(l)], days)

\* C4: a run on a re-used collector returns the metrics, and leaves the
\* record list, that a fresh collector would produce for the same listing.
C4_RunsAreIndependent ==
    pc = "returned" =>
       /\ Records = FreshRecords(listing, days_back)
       /\ metrics =
             CalculateMetrics(InitMetrics, FreshRecords(listing, days_back)).metrics

\* the six counting fields of a metrics value
Counts(m) ==
    <<m.repo_count, m.total_stars, m.total_forks, m.total_issues, m.total_prs,
      m.contributor_count>>

\* C7: for a non-empty record list the counting metrics are the list length
\* and the plain sums of stars, forks, open_issues, recent_pr_count and
\* contributor_count, the same for every permutation of the list;
\* contributor_count is not deduplicated.
C7_CountsArePlainSums ==
    (pc = "returned" /\ Records # <<>>) =>
       /\ Counts(metrics) =
             <<Len(Records),
               Total("stars"), Total("forks"), Total("open_issues"),
               Total("recent_pr_count"), Total("contributor_count")>>
       /\ \A p \in Permutations(DOMAIN Records) :
             Counts(CalculateMetrics(InitMetrics,
                       [j \in DOMAIN Records |-> Records[p[j]]]).metrics)
                = Counts(metrics)

C7_Witness ==
    /\ pc = "returned"
    /\ Len(Records) = 2
    /\ Records[1].contributor_count = 5 /\ Records[2].contributor_count = 5
    /\ Records[1].stars # Records[2].stars
    /\ metrics.contributor_count = 10
    /\ metrics.total_prs = 1

\* the records whose avg_review_time_hours is not null
Timed == { j \in DOMAIN Records : Records[j].avg_review_time_hours.den # 0 }

RECURSIVE FracSumOverSet(_, _)
FracSumOverSet(f, S) ==
    IF S = {} THEN Zero
    ELSE LET k == CHOOSE x \in S : TRUE
         IN FracAdd(f[k], FracSumOverSet(f, S \ {k}))

\* C8: for a non-empty record list response_time_avg is the mean of the
\* avg_review_time_hours of exactly the records where it is not null (0.0
\* counts), each weighted equally, and 0 when it is null in every record.
C8_ResponseTimeIsMeanOfNonNull ==
    (pc = "returned" /\ Records # <<>>) =>
       IF Timed = {} THEN metrics.response_time_avg = Zero
       ELSE FracMul(metrics.response_time_avg, Frac(Cardinality(Timed), 1))
               = FracSumOverSet([j \in DOMAIN Records |->
                                    Records[j].avg_review_time_hours], Timed)

C8_Witness ==
    /\ pc = "returned"
    /\ Len(Records) = 3
    /\ Records[1].avg_review_time_hours = None
    /\ Records[2].avg_review_time_hours = Zero
    /\ Records[3].avg_review_time_hours = Frac(9, 4)
    /\ metrics.response_time_avg = Frac(9, 8)

\* the sum over the records of min(1 + stars, 1000)
CappedStarsTotal ==
    SumOverSet([j \in DOMAIN Records |->
                  IF 1 + Records[j].stars < 1000 THEN 1 + Records[j].stars
                  ELSE 1000], DOMAIN Records)

\* the records of the example: stars 10, 0, 990, commits 5, 0, 20, prs 1, 0, 2
ExampleRecords ==
    /\ Len(Records) = 3
    /\ <<Records[1].stars, Records[2].stars, Records[3].stars>> = <<10, 0, 990>>
    /\ <<Records[1].recent_commit_count, Records[2].recent_commit_count,
         Records[3].recent_commit_count>> = <<5, 0, 20>>
    /\ <<Records[1].recent_pr_count, Records[2].recent_pr_count,
         Records[3].recent_pr_count>> = <<1, 0, 2>>

MostRecent(pulls) ==
    { k \in AfterCutoff(pulls) :
        Cardinality({ j \in AfterCutoff(pulls) :
                        pulls[j].created_at > pulls[k].created_at }) < 10 }

====
